---------------------------- MODULE Spec2Model ----------------------------
(***************************************************************************)
(* A model of the student-data API client (src/api.py) and of its request  *)
(* signer (src/checksum.py).                                               *)
(*                                                                         *)
(* Python values.  A str is a sequence of text pieces; every piece the     *)
(* code inspects character by character (lower, strip, replace, "in") is a *)
(* single character.  A value that may be None, an int, a str or parsed    *)
(* JSON is a record tagged by its Python type in field t.                  *)
(*                                                                         *)
(* HMAC-SHA1 is symbolic: the base64 text of the digest of (key, message)  *)
(* is the record [key, msg] followed by the one "=" that base64 appends to *)
(* a 20-byte digest.  Equal (key, message) give equal digests; nothing     *)
(* here relies on different messages giving different digests.             *)
(***************************************************************************)
EXTENDS Integers, Sequences, FiniteSets, TLC

VARIABLES
    env,      \* the process environment read by os.getenv (after load_dotenv)
    signer,   \* a checksum object built on its own, or PyNone
    api,      \* the API object, or PyNone
    exc,      \* the exception the last call raised to its caller, or PyNone
    last,     \* the record of the client call that has just returned, or PyNone
    sigLog    \* the last two signing calls made on the signer built on its own

vars == <<env, signer, api, exc, last, sigLog>>

-----------------------------------------------------------------------------
(* Bounds of the model *)

\* the clock ranges over NDays days of one month
NDays == 2
\* and over NHours hours of each of these days
NHours == 2

-----------------------------------------------------------------------------
(* Python values *)

PyNone == [t |-> "None"]
PyStr(s) == [t |-> "str", s |-> s]
PyInt(n) == [t |-> "int", n |-> n]
PyBool(b) == [t |-> "bool", b |-> b]
PyList(items) == [t |-> "list", items |-> items]
PyDict(items) == [t |-> "dict", items |-> items]

\* str(v) / the f-string rendering {v} of a value that is a str or None
Format(v) == IF v.t = "None" THEN <<"None">> ELSE v.s

\* bool(v): the truth value Python gives v in "if v" and in all([...])
Truthy(v) ==
    CASE v.t = "None" -> FALSE
      [] v.t = "str"  -> v.s # <<>>
      [] v.t = "int"  -> v.n # 0
      [] v.t = "bool" -> v.b
      [] v.t = "list" -> v.items # <<>>
      [] v.t = "dict" -> DOMAIN v.items # {}

\* an exception object: its class and the text str(e) gives
Exception(cls, msg) == [cls |-> cls, msg |-> msg]

-----------------------------------------------------------------------------
(* The environment and the clock *)

SecretNames == {"SECRET_KEY_MAIN", "SECRET_KEY_ALT", "SECRET_KEY_LONG", "SUPER_SECRET_CODE"}
EnvNames == SecretNames \cup {"AUTHEN_KEY", "BASE_URL", "GOOGLE_AUTH_URL"}

\* the value a variable has when it is set to something
EnvValue(name) ==
    CASE name = "SECRET_KEY_MAIN"   -> <<"k", "m">>
      [] name = "SECRET_KEY_ALT"    -> <<"k", "a">>
      [] name = "SECRET_KEY_LONG"   -> <<"k", "l">>
      [] name = "SUPER_SECRET_CODE" -> <<"s", "c">>
      [] name = "AUTHEN_KEY"        -> <<"a", "u">>
      [] name = "BASE_URL"          -> <<"https://api.example">>
      [] name = "GOOGLE_AUTH_URL"   -> <<"https://survey.example">>

\* a variable is unset (os.getenv gives None), set to "", or set to its value;
\* the two URLs are unset or set
EnvChoices(name) ==
    IF name \in {"BASE_URL", "GOOGLE_AUTH_URL"}
    THEN {PyNone, PyStr(EnvValue(name))}
    ELSE {PyNone, PyStr(<<>>), PyStr(EnvValue(name))}

Envs ==
    [SECRET_KEY_MAIN : EnvChoices("SECRET_KEY_MAIN"), SECRET_KEY_ALT : EnvChoices("SECRET_KEY_ALT"),
     SECRET_KEY_LONG : EnvChoices("SECRET_KEY_LONG"), SUPER_SECRET_CODE : EnvChoices("SUPER_SECRET_CODE"),
     AUTHEN_KEY : EnvChoices("AUTHEN_KEY"), BASE_URL : EnvChoices("BASE_URL"),
     GOOGLE_AUTH_URL : EnvChoices("GOOGLE_AUTH_URL")]

getenv(name) == env[name]

Days == 9 .. (9 + NDays - 1)
Hours == 9 .. (9 + NHours - 1)
Minutes == {0, 59}

\* datetime.now(): the local wall clock
Clocks == [year : {2026}, month : {11}, day : Days, hour : Hours, minute : Minutes]

Digit(d) == <<"0", "1", "2", "3", "4", "5", "6", "7", "8", "9">>[d + 1]
\* %d, %m, %H: two digits, zero-padded
TwoDigits(n) == <<Digit((n \div 10) % 10), Digit(n % 10)>>
\* %Y
FourDigits(n) == TwoDigits(n \div 100) \o TwoDigits(n % 100)

-----------------------------------------------------------------------------
(* checksum.py: the signer *)

\* a checksum.__init__ that tests the four values against None alone
checksum_init_none_only ==
    LET self == [n \in SecretNames |-> getenv(n)]
    IN  IF \E n \in SecretNames : self[n] = PyNone
        THEN [raised |-> Exception("ValueError", <<"Missing required environment variables">>),
              value |-> PyNone]
        ELSE [raised |-> PyNone, value |-> self]

\* checksum.__init__: the object, or the ValueError it raises
checksum_init ==
    LET self == [n \in SecretNames |-> getenv(n)]
    IN  IF ~ (\A n \in SecretNames : Truthy(self[n]))
        THEN [raised |-> Exception("ValueError", <<"Missing required environment variables">>),
              value |-> PyNone]
        ELSE [raised |-> PyNone, value |-> self]

\* a get_timestamp that keeps the minutes ('%d/%m/%Y %H:%M')
get_timestamp_minutes(now) ==
    TwoDigits(now.day) \o <<"/">> \o TwoDigits(now.month) \o <<"/">>
        \o FourDigits(now.year) \o <<" ">> \o TwoDigits(now.hour) \o <<":">>
        \o TwoDigits(now.minute)

\* checksum.get_timestamp: now.strftime('%d/%m/%Y %H:00')
get_timestamp(now) ==
    TwoDigits(now.day) \o <<"/">> \o TwoDigits(now.month) \o <<"/">>
        \o FourDigits(now.year) \o <<" ">> \o TwoDigits(now.hour) \o <<":", "0", "0">>

\* checksum.generate_hmac: base64 of the HMAC-SHA1 digest, 27 characters of
\* the base64 alphabet (kept symbolic in b64) and one "=" of padding
generate_hmac(key, message) == [b64 |-> [key |-> key, msg |-> message], pad |-> <<"=">>]

\* str.replace(old, new) for a one-character old
RECURSIVE Replace(_, _, _)
Replace(s, old, new) ==
    IF s = <<>> THEN <<>>
    ELSE (IF Head(s) = old THEN new ELSE <<Head(s)>>) \o Replace(Tail(s), old, new)

\* checksum.url_encode_checksum; the base64 alphabet holds neither "=" nor " ",
\* so the two replacements change the padding alone
url_encode_checksum(checksum) ==
    [b64 |-> checksum.b64,
     pad |-> Replace(Replace(checksum.pad, "=", <<"%", "3", "d">>), " ", <<"+">>)]

\* checksum_k with the campus code placed before the shared code in the message
checksum_k_campus_first(self, roll_number, campus_code, now) ==
    LET timestamp == get_timestamp(now)
        message == roll_number \o campus_code \o Format(self["SUPER_SECRET_CODE"]) \o timestamp
    IN  url_encode_checksum(generate_hmac(Format(self["SECRET_KEY_MAIN"]), message))

\* checksum.checksum_k
checksum_k(self, roll_number, campus_code, now) ==
    LET timestamp == get_timestamp(now)
        message == roll_number \o Format(self["SUPER_SECRET_CODE"]) \o campus_code \o timestamp
    IN  url_encode_checksum(generate_hmac(Format(self["SECRET_KEY_MAIN"]), message))

\* checksum.checksum_y
checksum_y(self, username, campus_code, now) ==
    LET timestamp == get_timestamp(now)
        message == username \o Format(self["SUPER_SECRET_CODE"]) \o campus_code \o timestamp
    IN  url_encode_checksum(generate_hmac(Format(self["SECRET_KEY_ALT"]), message))

\* checksum.checksum_a
checksum_a(self, parameter, now) ==
    LET timestamp == get_timestamp(now)
        message == Format(self["SECRET_KEY_LONG"]) \o parameter \o timestamp
    IN  url_encode_checksum(generate_hmac(Format(self["SECRET_KEY_MAIN"]), message))

-----------------------------------------------------------------------------
(* The HTTP transport (requests.Session) and the JSON decoder *)

Code == <<"c", "o", "d", "e">>

\* the response bodies the server may send
Bodies ==
    {"{\"code\": \"200\"}", "{\"code\": \"400\"}", "{\"code\": 200}", "{\"msg\": \"ok\"}",
     "{}", "[]", "[\"code\"]", "[1]", "5", "0", "\"barcode\"", "\"ok\"", "null", "true",
     "<html>"}

StatusCodes == {200, 404}

\* response.json(): the decoded body, or the error the decoder raises
json(text) ==
    LET ok(v) == [raised |-> PyNone, value |-> v]
    IN  CASE text = "{\"code\": \"200\"}" -> ok(PyDict(Code :> PyStr(<<"2", "0", "0">>)))
          [] text = "{\"code\": \"400\"}" -> ok(PyDict(Code :> PyStr(<<"4", "0", "0">>)))
          [] text = "{\"code\": 200}"     -> ok(PyDict(Code :> PyInt(200)))
          [] text = "{\"msg\": \"ok\"}"   -> ok(PyDict(<<"m", "s", "g">> :> PyStr(<<"o", "k">>)))
          [] text = "{}"                  -> ok(PyDict(<<>>))
          [] text = "[]"                  -> ok(PyList(<<>>))
          [] text = "[\"code\"]"          -> ok(PyList(<<PyStr(Code)>>))
          [] text = "[1]"                 -> ok(PyList(<<PyInt(1)>>))
          [] text = "5"                   -> ok(PyInt(5))
          [] text = "0"                   -> ok(PyInt(0))
          [] text = "\"barcode\""         -> ok(PyStr(<<"b", "a", "r">> \o Code))
          [] text = "\"ok\""              -> ok(PyStr(<<"o", "k">>))
          [] text = "null"                -> ok(PyNone)
          [] text = "true"                -> ok(PyBool(TRUE))
          [] OTHER -> [raised |-> Exception("JSONDecodeError", <<"Expecting value">>),
                       value |-> PyNone]

\* the ways the transport fails: each a subclass of Exception
TransportErrors ==
    {Exception("ConnectionError", <<"Connection reset by peer">>),
     Exception("Timeout", <<"Read timed out">>)}

MissingSchema == Exception("MissingSchema", <<"Invalid URL: No scheme supplied">>)

\* the classes "except Exception" catches
ExceptionClasses ==
    {"ConnectionError", "Timeout", "MissingSchema", "ValueError", "TypeError",
     "JSONDecodeError", "KeyError"}

Raise(e) == [raised |-> e, response |-> PyNone]
Respond(status_code, text) ==
    [raised |-> PyNone, response |-> [status_code |-> status_code, text |-> text]]

HasScheme(url) ==
    url # <<>> /\ Head(url) \in {Head(EnvValue("BASE_URL")), Head(EnvValue("GOOGLE_AUTH_URL"))}

\* what session.get / session.post may do with a URL: requests raises
\* MissingSchema for a URL without a scheme and sends nothing
Transport(url) ==
    IF HasScheme(url)
    THEN {Raise(e) : e \in TransportErrors}
            \cup {Respond(c, b) : c \in StatusCodes, b \in Bodies}
    ELSE {Raise(MissingSchema)}

\* sub in s, for two strs
IsSubstring(sub, s) ==
    \E i \in 0 .. (Len(s) - Len(sub)) : SubSeq(s, i + 1, i + Len(sub)) = sub

\* key in v
In(key, v) ==
    CASE v.t = "dict" -> [raised |-> PyNone, value |-> key \in DOMAIN v.items]
      [] v.t = "list" ->
            [raised |-> PyNone, value |-> \E i \in DOMAIN v.items : v.items[i] = PyStr(key)]
      [] v.t = "str"  -> [raised |-> PyNone, value |-> IsSubstring(key, v.s)]
      [] OTHER -> [raised |-> Exception("TypeError", <<"argument is not iterable">>),
                   value |-> FALSE]

\* v[key], for a str key
GetItem(v, key) ==
    CASE v.t = "dict" /\ key \in DOMAIN v.items -> [raised |-> PyNone, value |-> v.items[key]]
      [] v.t = "dict" -> [raised |-> Exception("KeyError", key), value |-> PyNone]
      [] OTHER -> [raised |-> Exception("TypeError", <<"indices must be integers">>),
                   value |-> PyNone]

-----------------------------------------------------------------------------
(* api.py: the client *)

\* API.__init__ (with the class attributes BASE_URL and GOOGLE_AUTH_URL, read
\* from the environment when the class is defined)
API_init ==
    LET AUTHEN_KEY == getenv("AUTHEN_KEY")
    IN  IF ~ Truthy(AUTHEN_KEY)
        THEN [raised |-> Exception("ValueError", <<"Missing required environment variable AUTHEN_KEY">>),
              value |-> PyNone]
        ELSE IF checksum_init.raised # PyNone
        THEN [raised |-> checksum_init.raised, value |-> PyNone]
        ELSE [raised |-> PyNone,
              value |-> [BASE_URL |-> getenv("BASE_URL"),
                         GOOGLE_AUTH_URL |-> getenv("GOOGLE_AUTH_URL"),
                         AUTHEN_KEY |-> AUTHEN_KEY,
                         checksum |-> checksum_init.value,
                         headers |-> [ContentType |-> "application/json",
                                      UserAgent |-> "okhttp/3.12.1"]]]

\* lines 42-51 of _make_request: the one call of the session, or the
\* ValueError for another method; sent lists the calls made of the session
send(method, url, params, data, use_json, outcome) ==
    CASE method = "GET" ->
            [sent |-> <<[method |-> "GET", url |-> url, params |-> params]>>,
             result |-> outcome]
      [] method = "POST" ->
            [sent |-> <<[method |-> "POST", url |-> url, params |-> params,
                         body |-> IF use_json THEN "json" ELSE "data", data |-> data]>>,
             result |-> outcome]
      [] OTHER ->
            [sent |-> <<>>,
             result |-> Raise(Exception("ValueError", <<"Unsupported HTTP method">>))]

\* lines 53-58: json_data is None when the body does not decode
json_data_of(response) ==
    IF json(response.text).raised # PyNone THEN PyNone ELSE json(response.text).value

\* lines 60-64: is_success, or the exception the test of the code field raises
is_success_of(response, json_data) ==
    LET is_success == response.status_code = 200
    IN  IF ~ Truthy(json_data)
        THEN [raised |-> PyNone, value |-> is_success]
        ELSE IF In(Code, json_data).raised # PyNone
        THEN [raised |-> In(Code, json_data).raised, value |-> FALSE]
        ELSE IF ~ In(Code, json_data).value
        THEN [raised |-> PyNone, value |-> is_success]
        ELSE IF GetItem(json_data, Code).raised # PyNone
        THEN [raised |-> GetItem(json_data, Code).raised, value |-> FALSE]
        ELSE [raised |-> PyNone,
              value |-> is_success /\ GetItem(json_data, Code).value = PyStr(<<"2", "0", "0">>)]

\* a handler "except requests.ConnectionError as e"
except_ConnectionError(e) ==
    IF e.cls = "ConnectionError"
    THEN [raised |-> PyNone,
          value |-> [success |-> FALSE, error |-> e.msg, status_code |-> PyNone,
                     data |-> PyNone]]
    ELSE [raised |-> e, value |-> PyNone]

\* lines 71-77: "except Exception as e" returns the error envelope; anything
\* else goes on to the caller
except_Exception(e) ==
    IF e.cls \in ExceptionClasses
    THEN [raised |-> PyNone,
          value |-> [success |-> FALSE, error |-> e.msg, status_code |-> PyNone,
                     data |-> PyNone]]
    ELSE [raised |-> e, value |-> PyNone]

\* API._make_request, given what the transport does with the request
make_request(method, url, params, data, use_json, outcome) ==
    LET attempt == send(method, url, params, data, use_json, outcome)
        response == attempt.result.response
        json_data == json_data_of(response)
        is_success == is_success_of(response, json_data)
        returned ==
            IF attempt.result.raised # PyNone THEN except_Exception(attempt.result.raised)
            ELSE IF is_success.raised # PyNone THEN except_Exception(is_success.raised)
            ELSE [raised |-> PyNone,
                  value |-> [success |-> is_success.value,
                             status_code |-> PyInt(response.status_code),
                             data |-> json_data,
                             raw_response |-> response.text]]
    IN  [sent |-> attempt.sent, raised |-> returned.raised, value |-> returned.value]

-----------------------------------------------------------------------------
(* str methods used by the client *)

UpperCase ==
    <<"A", "B", "C", "D", "E", "F", "G", "H", "I", "J", "K", "L", "M",
      "N", "O", "P", "Q", "R", "S", "T", "U", "V", "W", "X", "Y", "Z">>
LowerCase ==
    <<"a", "b", "c", "d", "e", "f", "g", "h", "i", "j", "k", "l", "m",
      "n", "o", "p", "q", "r", "s", "t", "u", "v", "w", "x", "y", "z">>
Whitespace == {" ", "\t", "\n", "\r"}

\* str.lower
lower(s) ==
    [i \in DOMAIN s |->
        IF \E j \in DOMAIN UpperCase : UpperCase[j] = s[i]
        THEN LowerCase[CHOOSE j \in DOMAIN UpperCase : UpperCase[j] = s[i]]
        ELSE s[i]]

RECURSIVE lstrip(_)
lstrip(s) == IF s # <<>> /\ Head(s) \in Whitespace THEN lstrip(Tail(s)) ELSE s

RECURSIVE rstrip(_)
rstrip(s) ==
    IF s # <<>> /\ s[Len(s)] \in Whitespace THEN rstrip(SubSeq(s, 1, Len(s) - 1)) ELSE s

\* str.strip
strip(s) == rstrip(lstrip(s))

-----------------------------------------------------------------------------
(* The callers' arguments *)

CampusCodes == {<<"H", "N">>, <<"D", "N">>}
RollNumbers == {<<"S", "1">>, <<"S", "2">>}
\* the caller's token; one of them has capitals and spaces around it
Authens == {<<"t", "k">>, <<" ", "T", "k", " ">>}
Semesters == {<<"F", "A">>}
Weeks == {<<"1">>}
Years == {<<"2", "6">>}
RateIds == {<<"7">>}
RateValues == {<<"5">>}
RateComments == {<<"o", "k">>}
NewsTypes == {<<"1">>, <<>>}
Dates == {<<"1", "7">>}
Usernames ==
    {<<" ", " ", "U", "S", "E", "R", "@", "E", "x", "a", "m", "p", "l", "e", ".", "c", "o", "m", " ">>,
     <<"a", "@", "b">>,
     <<"\t", "A", " ", "b", "\n">>,
     <<" ", " ">>}

-----------------------------------------------------------------------------
(* State *)

Init ==
    /\ env \in Envs
    /\ signer = PyNone
    /\ api = PyNone
    /\ exc = PyNone
    /\ last = PyNone
    /\ sigLog = <<>>

\* checksum(): a signer built on its own
new_checksum ==
    /\ signer = PyNone
    /\ signer' = checksum_init.value
    /\ exc' = checksum_init.raised
    /\ UNCHANGED <<env, api, last, sigLog>>

\* API()
new_API ==
    /\ api = PyNone
    /\ api' = API_init.value
    /\ exc' = API_init.raised
    /\ UNCHANGED <<env, signer, last, sigLog>>

\* a method of the client can be called: the object exists, and the caller
\* holds no earlier result
Ready == api # PyNone /\ last = PyNone

\* "return self._make_request(method, url, params=params)": the call returns
\* what _make_request returns, or raises what it raises
Call(op, args, signed, method, url, params) ==
    \E outcome \in Transport(url) :
        LET r == make_request(method, url, params, PyNone, TRUE, outcome)
        IN  /\ last' = [op |-> op, args |-> args, signed |-> signed, outcome |-> outcome,
                        sent |-> r.sent, ret |-> r.value]
            /\ exc' = r.raised
            /\ UNCHANGED <<env, signer, api, sigLog>>

\* the caller drops the result; the client keeps nothing of a call
Discard ==
    /\ last # PyNone
    /\ last' = PyNone
    /\ exc' = PyNone
    /\ UNCHANGED <<env, signer, api, sigLog>>

-----------------------------------------------------------------------------
(* The operations of the client *)

\* the body shared by the ten methods of (campus_code, roll_number, authen),
\* which differ in the path alone; with the token trimmed before it is sent
by_roll_trimmed(op, path) ==
    \E campus_code \in CampusCodes, roll_number \in RollNumbers, authen \in Authens,
       now \in Clocks :
            LET checksum == checksum_k(api.checksum, roll_number, campus_code, now)
                url == Format(api.BASE_URL) \o <<path>>
                params == [campusCode |-> campus_code, rollNumber |-> roll_number,
                           Authen |-> strip(authen), checksum |-> checksum]
            IN  Call(op, [campus_code |-> campus_code, roll_number |-> roll_number,
                          authen |-> authen],
                     <<checksum>>, "GET", url, params)

\* the body shared by the ten methods of (campus_code, roll_number, authen),
\* which differ in the path alone
by_roll(op, path) ==
    \E campus_code \in CampusCodes, roll_number \in RollNumbers, authen \in Authens,
       now \in Clocks :
            LET checksum == checksum_k(api.checksum, roll_number, campus_code, now)
                url == Format(api.BASE_URL) \o <<path>>
                params == [campusCode |-> campus_code, rollNumber |-> roll_number,
                           Authen |-> authen, checksum |-> checksum]
            IN  Call(op, [campus_code |-> campus_code, roll_number |-> roll_number,
                          authen |-> authen],
                     <<checksum>>, "GET", url, params)

\* the body shared by the four methods of (campus_code, semester, roll_number,
\* authen) that send the semester as 'Semester'
by_semester(op, path) ==
    \E campus_code \in CampusCodes, semester \in Semesters, roll_number \in RollNumbers,
       authen \in Authens, now \in Clocks :
            LET checksum == checksum_k(api.checksum, roll_number, campus_code, now)
                url == Format(api.BASE_URL) \o <<path>>
                params == [campusCode |-> campus_code, rollNumber |-> roll_number,
                           Semester |-> semester, Authen |-> authen, checksum |-> checksum]
            IN  Call(op, [campus_code |-> campus_code, semester |-> semester,
                          roll_number |-> roll_number, authen |-> authen],
                     <<checksum>>, "GET", url, params)

get_student_by_id ==
    /\ Ready
    /\ by_roll("get_student_by_id", "/GetStudentById")

get_student_rate ==
    /\ Ready
    /\ by_roll("get_student_rate", "/GetStudentRate")

\* add_rate with a second POST when the first attempt fails
add_rate_retrying ==
    /\ Ready
    /\ \E campus_code \in CampusCodes, authen \in Authens, rate_id \in RateIds,
          rate_value \in RateValues, rate_comment \in RateComments, now \in Clocks :
            LET checksum == checksum_k(api.checksum, rate_id, campus_code, now)
                url == Format(api.BASE_URL) \o <<"/AddRate">>
                params == [campusCode |-> campus_code, Authen |-> authen, rateid |-> rate_id,
                           rateValue |-> rate_value, rateComment |-> rate_comment,
                           checksum |-> checksum]
                args == [campus_code |-> campus_code, authen |-> authen, rate_id |-> rate_id,
                         rate_value |-> rate_value, rate_comment |-> rate_comment]
            IN  \E first \in Transport(url), outcome \in Transport(url) :
                    LET r1 == make_request("POST", url, params, PyNone, TRUE, first)
                        r2 == make_request("POST", url, params, PyNone, TRUE, outcome)
                        again == r1.raised = PyNone /\ ~ r1.value.success
                    IN  /\ last' = [op |-> "add_rate", args |-> args, signed |-> <<checksum>>,
                                    outcome |-> IF again THEN outcome ELSE first,
                                    sent |-> IF again THEN r1.sent \o r2.sent ELSE r1.sent,
                                    ret |-> IF again THEN r2.value ELSE r1.value]
                        /\ exc' = IF again THEN r2.raised ELSE r1.raised
                        /\ UNCHANGED <<env, signer, api, sigLog>>

add_rate ==
    /\ Ready
    /\ \E campus_code \in CampusCodes, authen \in Authens, rate_id \in RateIds,
          rate_value \in RateValues, rate_comment \in RateComments, now \in Clocks :
            LET checksum == checksum_k(api.checksum, rate_id, campus_code, now)
                url == Format(api.BASE_URL) \o <<"/AddRate">>
                params == [campusCode |-> campus_code, Authen |-> authen, rateid |-> rate_id,
                           rateValue |-> rate_value, rateComment |-> rate_comment,
                           checksum |-> checksum]
            IN  Call("add_rate",
                     [campus_code |-> campus_code, authen |-> authen, rate_id |-> rate_id,
                      rate_value |-> rate_value, rate_comment |-> rate_comment],
                     <<checksum>>, "POST", url, params)

get_balance ==
    /\ Ready
    /\ by_roll("get_balance", "/GetBalance")

get_fee_by_roll ==
    /\ Ready
    /\ by_roll("get_fee_by_roll", "/GeFeeByRoll")

get_application ==
    /\ Ready
    /\ by_roll("get_application", "/GetApplication")

retrieve_image ==
    /\ Ready
    /\ by_roll("retrieve_image", "/RetriveImage")

get_diemphongtrao ==
    /\ Ready
    /\ \E campus_code \in CampusCodes, roll_number \in RollNumbers, semester \in Semesters,
          authen \in Authens, now \in Clocks :
            LET checksum == checksum_k(api.checksum, roll_number, campus_code, now)
                url == Format(api.BASE_URL) \o <<"/GetDiemphongtrao">>
                params == [campusCode |-> campus_code, rollNumber |-> roll_number,
                           semester |-> semester, Authen |-> authen, checksum |-> checksum]
            IN  Call("get_diemphongtrao",
                     [campus_code |-> campus_code, roll_number |-> roll_number,
                      semester |-> semester, authen |-> authen],
                     <<checksum>>, "GET", url, params)

get_activity_student ==
    /\ Ready
    /\ by_semester("get_activity_student", "/GetActivityStudent")

get_activity_student_by_week ==
    /\ Ready
    /\ \E campus_code \in CampusCodes, week \in Weeks, roll_number \in RollNumbers,
          semester \in Semesters, year \in Years, authen \in Authens, now \in Clocks :
            LET checksum == checksum_k(api.checksum, roll_number, campus_code, now)
                url == Format(api.BASE_URL) \o <<"/GetActivityStudentByWeek">>
                params == [campusCode |-> campus_code, week |-> week,
                           rollNumber |-> roll_number, Semester |-> semester, year |-> year,
                           Authen |-> authen, checksum |-> checksum]
            IN  Call("get_activity_student_by_week",
                     [campus_code |-> campus_code, week |-> week, roll_number |-> roll_number,
                      semester |-> semester, year |-> year, authen |-> authen],
                     <<checksum>>, "GET", url, params)

get_notification_by_roll ==
    /\ Ready
    /\ by_roll("get_notification_by_roll", "/GetNotificationByRoll")

get_all_active_campus ==
    /\ Ready
    /\ Call("get_all_active_campus", <<>>, <<>>, "GET",
            Format(api.BASE_URL) \o <<"/GetAllActiveCampus">>, PyNone)

get_version ==
    /\ Ready
    /\ Call("get_version", <<>>, <<>>, "GET", Format(api.BASE_URL) \o <<"/GetVersion">>, PyNone)

get_campus_info ==
    /\ Ready
    /\ by_roll("get_campus_info", "/GetCampusInfo")

check_open_feedback ==
    /\ Ready
    /\ by_roll("check_open_feedback", "/CheckOpenFeedBack")

check_update_profile ==
    /\ Ready
    /\ by_roll("check_update_profile", "/CheckUpdateProfile")

\* get_required_survey with the username sent as the caller gave it and the
\* request addressed to BASE_URL
get_required_survey_raw ==
    /\ Ready
    /\ \E username \in Usernames, now \in Clocks :
            LET checksum == checksum_y(api.checksum, strip(lower(username)), <<>>, now)
                url == Format(api.BASE_URL) \o <<"/GetRequiredSurvey">>
                params == [username |-> username, checksum |-> checksum]
            IN  Call("get_required_survey", [username |-> username],
                     <<checksum>>, "GET", url, params)

get_required_survey ==
    /\ Ready
    /\ \E username \in Usernames, now \in Clocks :
            LET checksum == checksum_y(api.checksum, strip(lower(username)), <<>>, now)
                url == Format(api.GOOGLE_AUTH_URL) \o <<"/GetRequiredSurvey">>
                params == [username |-> strip(lower(username)), checksum |-> checksum]
            IN  Call("get_required_survey", [username |-> username],
                     <<checksum>>, "GET", url, params)

get_semester ==
    /\ Ready
    /\ \E campus_code \in CampusCodes, authen \in Authens, now \in Clocks :
            LET checksum == checksum_a(api.checksum, campus_code, now)
                url == Format(api.BASE_URL) \o <<"/GetSemester">>
                params == [campusCode |-> campus_code, Authen |-> authen,
                           checksum |-> checksum]
            IN  Call("get_semester", [campus_code |-> campus_code, authen |-> authen],
                     <<checksum>>, "GET", url, params)

get_subject_by_semester ==
    /\ Ready
    /\ \E campus_code \in CampusCodes, semester \in Semesters, authen \in Authens,
          now \in Clocks :
            LET checksum == checksum_k(api.checksum, <<>>, campus_code, now)
                url == Format(api.BASE_URL) \o <<"/GetSubjectBySemester">>
                params == [campusCode |-> campus_code, Semester |-> semester,
                           Authen |-> authen, checksum |-> checksum]
            IN  Call("get_subject_by_semester",
                     [campus_code |-> campus_code, semester |-> semester, authen |-> authen],
                     <<checksum>>, "GET", url, params)

\* get_week_by_date with the checksum it computes added to the parameters
get_week_by_date_signed ==
    /\ Ready
    /\ \E timestamp \in Dates, now \in Clocks :
            LET checksum == checksum_a(api.checksum, timestamp, now)
                url == Format(api.BASE_URL) \o <<"/GetWeekByDate">>
                params == [date |-> timestamp, checksum |-> checksum]
            IN  Call("get_week_by_date", [timestamp |-> timestamp],
                     <<checksum>>, "GET", url, params)

get_week_by_date ==
    /\ Ready
    /\ \E timestamp \in Dates, now \in Clocks :
            LET checksum == checksum_a(api.checksum, timestamp, now)
                url == Format(api.BASE_URL) \o <<"/GetWeekByDate">>
                params == [date |-> timestamp]
            IN  Call("get_week_by_date", [timestamp |-> timestamp],
                     <<checksum>>, "GET", url, params)

get_student_attendances ==
    /\ Ready
    /\ by_semester("get_student_attendances", "/GetStudentAttendances")

get_exam_schedule ==
    /\ Ready
    /\ by_semester("get_exam_schedule", "/GetScheduleExam")

get_student_mark ==
    /\ Ready
    /\ by_semester("get_student_mark", "/GetStudentMark")

get_top10_news ==
    /\ Ready
    /\ \E campus_code \in CampusCodes, authen \in Authens, news_type \in NewsTypes,
          now \in Clocks :
            LET checksum == checksum_k(api.checksum, news_type, campus_code, now)
                url == Format(api.BASE_URL) \o <<"/GetTop10News">>
                params == [campusCode |-> campus_code, Authen |-> authen, type |-> news_type,
                           checksum |-> checksum]
            IN  Call("get_top10_news",
                     [campus_code |-> campus_code, authen |-> authen, news_type |-> news_type],
                     <<checksum>>, "GET", url, params)

Next ==
    \/ new_checksum
    \/ new_API
    \/ get_student_by_id
    \/ get_student_rate
    \/ add_rate
    \/ get_balance
    \/ get_fee_by_roll
    \/ get_application
    \/ retrieve_image
    \/ get_diemphongtrao
    \/ get_activity_student
    \/ get_activity_student_by_week
    \/ get_notification_by_roll
    \/ get_all_active_campus
    \/ get_version
    \/ get_campus_info
    \/ check_open_feedback
    \/ check_update_profile
    \/ get_required_survey
    \/ get_semester
    \/ get_subject_by_semester
    \/ get_week_by_date
    \/ get_student_attendances
    \/ get_exam_schedule
    \/ get_student_mark
    \/ get_top10_news
    \/ Discard

Spec == Init /\ [][Next]_vars

-----------------------------------------------------------------------------
(* The signer used on its own *)

\* the log keeps the last two signing calls
Window(log, r) == IF Len(log) < 2 THEN Append(log, r) ELSE <<log[2], r>>

\* checksum().checksum_k(roll_number, campus_code)
sign_k ==
    /\ signer # PyNone
    /\ \E roll_number \in RollNumbers, campus_code \in CampusCodes, now \in Clocks :
            sigLog' = Window(sigLog, [variant |-> "k", args |-> <<roll_number, campus_code>>,
                                      now |-> now,
                                      checksum |-> checksum_k(signer, roll_number, campus_code, now)])
    /\ UNCHANGED <<env, signer, api, exc, last>>

\* checksum().checksum_y(username, campus_code)
sign_y ==
    /\ signer # PyNone
    /\ \E username \in {<<"a", "@", "b">>}, campus_code \in {<<>>, <<"H", "N">>},
          now \in Clocks :
            sigLog' = Window(sigLog, [variant |-> "y", args |-> <<username, campus_code>>,
                                      now |-> now,
                                      checksum |-> checksum_y(signer, username, campus_code, now)])
    /\ UNCHANGED <<env, signer, api, exc, last>>

\* checksum().checksum_a(parameter)
sign_a ==
    /\ signer # PyNone
    /\ \E parameter \in Dates \cup CampusCodes, now \in Clocks :
            sigLog' = Window(sigLog, [variant |-> "a", args |-> <<parameter>>,
                                      now |-> now,
                                      checksum |-> checksum_a(signer, parameter, now)])
    /\ UNCHANGED <<env, signer, api, exc, last>>

\* only the signer's four values are set
SignerInit == Init /\ \A n \in EnvNames \ SecretNames : env[n] = PyNone

SignerNext == new_checksum \/ sign_k \/ sign_y \/ sign_a

SignerSpec == SignerInit /\ [][SignerNext]_vars

-----------------------------------------------------------------------------
(* The client and the signer in one process *)

\* everything is set
TableInit == Init /\ \A n \in EnvNames : env[n] = PyStr(EnvValue(n))

\* the process uses the client and a signer of its own in turn: neither reads
\* what the other leaves, so it holds the results of one of them at a time
TableNext ==
    \/ sigLog = <<>> /\ new_checksum
    \/ sigLog = <<>> /\ new_API
    \/ sigLog = <<>> /\ get_student_by_id
    \/ sigLog = <<>> /\ get_student_rate
    \/ sigLog = <<>> /\ add_rate
    \/ sigLog = <<>> /\ get_balance
    \/ sigLog = <<>> /\ get_fee_by_roll
    \/ sigLog = <<>> /\ get_application
    \/ sigLog = <<>> /\ retrieve_image
    \/ sigLog = <<>> /\ get_diemphongtrao
    \/ sigLog = <<>> /\ get_activity_student
    \/ sigLog = <<>> /\ get_activity_student_by_week
    \/ sigLog = <<>> /\ get_notification_by_roll
    \/ sigLog = <<>> /\ get_all_active_campus
    \/ sigLog = <<>> /\ get_version
    \/ sigLog = <<>> /\ get_campus_info
    \/ sigLog = <<>> /\ check_open_feedback
    \/ sigLog = <<>> /\ check_update_profile
    \/ sigLog = <<>> /\ get_required_survey
    \/ sigLog = <<>> /\ get_semester
    \/ sigLog = <<>> /\ get_subject_by_semester
    \/ sigLog = <<>> /\ get_week_by_date
    \/ sigLog = <<>> /\ get_student_attendances
    \/ sigLog = <<>> /\ get_exam_schedule
    \/ sigLog = <<>> /\ get_student_mark
    \/ sigLog = <<>> /\ get_top10_news
    \/ sigLog = <<>> /\ Discard
    \/ last = PyNone /\ sign_k
    \/ last = PyNone /\ sign_y
    \/ last = PyNone /\ sign_a

TableSpec == TableInit /\ [][TableNext]_vars

-----------------------------------------------------------------------------
(* Properties *)

\* a client method has returned
Called == last # PyNone
\* the transport delivered an HTTP response to the call
Received == Called /\ last.outcome.raised = PyNone
\* the transport raised
TransportFailed == Called /\ last.outcome.raised # PyNone
\* the one request of the call
Request == last.sent[1]
ParamNames == IF Request.params = PyNone THEN {} ELSE DOMAIN Request.params
IsPrefix(p, s) == Len(p) <= Len(s) /\ SubSeq(s, 1, Len(p)) = p
\* the decoded body has a 'code' field
HasCodeField(text) ==
    /\ json(text).raised = PyNone
    /\ json(text).value.t = "dict"
    /\ Code \in DOMAIN json(text).value.items

\* C1: for every HTTP response received, success is true exactly when the
\* status is 200 and, if the decoded body has a 'code' field, that field is the
\* string "200".
C1_SuccessIffStatusAndCode ==
    Received =>
        /\ last.ret # PyNone
        /\ last.ret.success =
            (/\ last.outcome.response.status_code = 200
             /\ HasCodeField(last.outcome.response.text) =>
                    json(last.outcome.response.text).value.items[Code] = PyStr(<<"2", "0", "0">>))

\* C2: when the transport raises, the call raises nothing and returns the
\* envelope success=false, status_code=None, data=None, error=str(e), without a
\* raw_response field.
C2_TransportFailureEnvelope ==
    TransportFailed =>
        /\ exc = PyNone
        /\ last.ret = [success |-> FALSE, error |-> last.outcome.raised.msg,
                       status_code |-> PyNone, data |-> PyNone]
        /\ last.ret.error # <<>>
        /\ "raw_response" \notin DOMAIN last.ret

\* C2 witness: a call whose transport timed out has returned the error envelope
C2_Witness ==
    /\ TransportFailed
    /\ last.outcome.raised.cls = "Timeout"
    /\ last.ret # PyNone
    /\ last.ret.status_code = PyNone

\* C3: whenever the transport delivers a response, the envelope carries the
\* HTTP status, the raw text, data = the decoded JSON (None when the body does not
\* decode) and no error field; error is present only when the transport failed;
\* a body that does not decode does not turn success to false.
C3_ResponseEnvelopeShape ==
    Received =>
        LET response == last.outcome.response
        IN  /\ last.ret # PyNone
            /\ DOMAIN last.ret = {"success", "status_code", "data", "raw_response"}
            /\ last.ret.status_code = PyInt(response.status_code)
            /\ last.ret.raw_response = response.text
            /\ last.ret.data = json(response.text).value
            /\ json(response.text).raised # PyNone =>
                    last.ret.success = (response.status_code = 200)

\* a secret is unset or empty
SecretsMissing == \E n \in SecretNames : env[n] \in {PyNone, PyStr(<<>>)}
\* the authentication key is unset
AuthenKeyMissing == env["AUTHEN_KEY"] = PyNone

C5_MissingBaseUrlFatal ==
    (env["BASE_URL"] = PyNone \/ env["GOOGLE_AUTH_URL"] = PyNone) => api = PyNone

\* C6: every call of a client method makes exactly one call of the session,
\* a POST for add_rate and a GET for every other method.
C6_ExactlyOneRequest ==
    Called =>
        /\ Len(last.sent) = 1
        /\ Request.method = IF last.op = "add_rate" THEN "POST" ELSE "GET"

\* C6 witness: add_rate has returned after a transport failure, having made
\* its one POST
C6_Witness ==
    /\ Called
    /\ last.op = "add_rate"
    /\ TransportFailed
    /\ Len(last.sent) = 1
    /\ Request.method = "POST"

\* C7: get_week_by_date computes one variant-A checksum over the date (key
\* SECRET_KEY_MAIN, message SECRET_KEY_LONG + date + timestamp) and sends the
\* 'date' parameter alone.
C7_WeekByDateSendsNoChecksum ==
    (Called /\ last.op = "get_week_by_date") =>
        /\ Len(last.signed) = 1
        /\ last.signed[1].b64.key = Format(api.checksum["SECRET_KEY_MAIN"])
        /\ IsPrefix(Format(api.checksum["SECRET_KEY_LONG"]) \o last.args.timestamp,
                    last.signed[1].b64.msg)
        /\ Len(last.sent) = 1
        /\ Request.params = [date |-> last.args.timestamp]
        /\ "checksum" \notin ParamNames

\* C7 witness: get_week_by_date has returned with a response, having
\* computed a checksum
C7_Witness ==
    /\ Called
    /\ last.op = "get_week_by_date"
    /\ Received
    /\ Len(last.signed) = 1
    /\ ParamNames = {"date"}

\* the request carries the campus code, the caller's token as given and the
\* checksum the call computed
CarriesCampusTokenSignature ==
    /\ Len(last.sent) = 1
    /\ {"campusCode", "Authen", "checksum"} \subseteq ParamNames
    /\ {"campus_code", "authen"} \subseteq DOMAIN last.args
    /\ Request.params.campusCode = last.args.campus_code
    /\ Request.params.Authen = last.args.authen
    /\ Len(last.signed) = 1
    /\ Request.params.checksum = last.signed[1]

\* C8 as stated: the request of every call carries the campus code, the
\* caller's token verbatim and the computed signature.
C8_EveryRequestCarriesThem == Called => CarriesCampusTokenSignature

\* C8 as amended: every call but those of get_all_active_campus, get_version,
\* get_required_survey and get_week_by_date carries the three; the first two
\* send no parameters, get_required_survey the username and the signature,
\* get_week_by_date the date.
C8_RequestsCarryThemButFour ==
    Called =>
        CASE last.op \in {"get_all_active_campus", "get_version"} ->
                Len(last.sent) = 1 /\ ParamNames = {}
          [] last.op = "get_required_survey" ->
                /\ Len(last.sent) = 1 /\ ParamNames = {"username", "checksum"}
                /\ Request.params.checksum = last.signed[1]
          [] last.op = "get_week_by_date" -> Len(last.sent) = 1 /\ ParamNames = {"date"}
          [] OTHER -> CarriesCampusTokenSignature

\* C8 witness: get_balance has sent a token with capitals and surrounding
\* blanks as the caller gave it
C8_Witness ==
    /\ Called
    /\ last.op = "get_balance"
    /\ last.args.authen = <<" ", "T", "k", " ">>
    /\ Request.params.Authen = <<" ", "T", "k", " ">>
    /\ Request.params.checksum = last.signed[1]

SameHour(a, b) ==
    a.year = b.year /\ a.month = b.month /\ a.day = b.day /\ a.hour = b.hour

\* C9: two signing calls of the same variant with the same arguments give
\* the same signature when made in the same wall-clock hour, and sign different
\* messages when made in different hours.
C9_SignatureDependsOnHourOnly ==
    \A i, j \in DOMAIN sigLog :
        (sigLog[i].variant = sigLog[j].variant /\ sigLog[i].args = sigLog[j].args) =>
            /\ SameHour(sigLog[i].now, sigLog[j].now) =>
                    sigLog[i].checksum = sigLog[j].checksum
            /\ ~ SameHour(sigLog[i].now, sigLog[j].now) =>
                    sigLog[i].checksum.b64.msg # sigLog[j].checksum.b64.msg

\* C9 witness: two calls of checksum_k with the same arguments, in the same
\* hour at different minutes, have given the same signature
C9_Witness ==
    /\ Len(sigLog) = 2
    /\ sigLog[1].variant = "k" /\ sigLog[2].variant = "k"
    /\ sigLog[1].args = sigLog[2].args
    /\ SameHour(sigLog[1].now, sigLog[2].now)
    /\ sigLog[1].now.minute # sigLog[2].now.minute
    /\ sigLog[1].checksum = sigLog[2].checksum

\* u is raw lower-cased and without its leading and trailing whitespace
IsLowerTrimmed(raw, u) ==
    /\ u # <<>> => u[1] \notin Whitespace /\ u[Len(u)] \notin Whitespace
    /\ \A k \in DOMAIN u : \A j \in DOMAIN UpperCase : u[k] # UpperCase[j]
    /\ \E i \in 0 .. (Len(raw) - Len(u)) :
            /\ \A k \in 1 .. i : raw[k] \in Whitespace
            /\ \A k \in (i + Len(u) + 1) .. Len(raw) : raw[k] \in Whitespace
            /\ \A k \in DOMAIN u : u[k] = lower(<<raw[i + k]>>)[1]

\* C10: get_required_survey sends as 'username' the caller's username
\* lower-cased and trimmed, signs with SECRET_KEY_ALT a message that begins with
\* that same form, sends that signature, and addresses the request to
\* GOOGLE_AUTH_URL.
C10_SurveyUsernameNormalised ==
    (Called /\ last.op = "get_required_survey") =>
        /\ Len(last.sent) = 1 /\ Len(last.signed) = 1
        /\ IsLowerTrimmed(last.args.username, Request.params.username)
        /\ last.args.username
                = <<" ", " ", "U", "S", "E", "R", "@", "E", "x", "a", "m", "p", "l", "e", ".",
                    "c", "o", "m", " ">>
            => Request.params.username
                = <<"u", "s", "e", "r", "@", "e", "x", "a", "m", "p", "l", "e", ".", "c", "o", "m">>
        /\ last.signed[1].b64.key = Format(api.checksum["SECRET_KEY_ALT"])
        /\ IsPrefix(Request.params.username \o Format(api.checksum["SUPER_SECRET_CODE"]),
                    last.signed[1].b64.msg)
        /\ Len(last.signed[1].b64.msg)
                = Len(Request.params.username) + Len(Format(api.checksum["SUPER_SECRET_CODE"])) + 16
        /\ Request.params.checksum = last.signed[1]
        /\ Request.url = Format(env["GOOGLE_AUTH_URL"]) \o <<"/GetRequiredSurvey">>

\* C10 witness: the username "  USER@Example.com " has been sent as
\* "user@example.com" to the survey endpoint, and a response received
C10_Witness ==
    /\ Called
    /\ last.op = "get_required_survey"
    /\ Received
    /\ Len(last.args.username) = 19
    /\ Request.params.username
        = <<"u", "s", "e", "r", "@", "e", "x", "a", "m", "p", "l", "e", ".", "c", "o", "m">>
    /\ Request.url = <<"https://survey.example", "/GetRequiredSurvey">>

\* the operations the catalogue signs with K over the roll number and the
\* campus code
RollNumberOps ==
    {"get_student_by_id", "get_student_rate", "get_balance", "get_fee_by_roll",
     "get_application", "retrieve_image", "get_diemphongtrao", "get_activity_student",
     "get_activity_student_by_week", "get_notification_by_roll", "get_campus_info",
     "check_open_feedback", "check_update_profile", "get_student_attendances",
     "get_exam_schedule", "get_student_mark"}

\* the variant table: the key and the message of each variant, for the
\* timestamp slot of the hour
TableK(identifier, campus_code, slot) ==
    [key |-> Format(env["SECRET_KEY_MAIN"]),
     msg |-> identifier \o Format(env["SUPER_SECRET_CODE"]) \o campus_code \o slot]
TableY(username, campus_code, slot) ==
    [key |-> Format(env["SECRET_KEY_ALT"]),
     msg |-> username \o Format(env["SUPER_SECRET_CODE"]) \o campus_code \o slot]
TableA(parameter, slot) ==
    [key |-> Format(env["SECRET_KEY_MAIN"]),
     msg |-> Format(env["SECRET_KEY_LONG"]) \o parameter \o slot]

\* the call signed exactly once, sent that signature, and the signature is
\* the table's entry for some hour
SignedAs(entry(_)) ==
    /\ Len(last.signed) = 1
    /\ Request.params.checksum = last.signed[1]
    /\ \E now \in Clocks : last.signed[1].b64 = entry(get_timestamp(now))

\* C11: each signing variant uses the key and the message order of the
\* variant table (K: identifier + shared code + campus code + slot under the
\* main key; Y: username + shared code + campus code + slot under the alt key;
\* A: long key + parameter + slot under the main key), and the client applies
\* them as catalogued: get_semester A over the campus code,
\* get_subject_by_semester K with an empty identifier, get_top10_news K with the
\* news type as identifier, every roll-number operation K over the roll number
\* and the campus code.
C11_VariantTableAndCatalogue ==
    /\ \A i \in DOMAIN sigLog :
        LET r == sigLog[i]
            slot == get_timestamp(r.now)
        IN  /\ r.variant = "k" => r.checksum.b64 = TableK(r.args[1], r.args[2], slot)
            /\ r.variant = "y" => r.checksum.b64 = TableY(r.args[1], r.args[2], slot)
            /\ r.variant = "a" => r.checksum.b64 = TableA(r.args[1], slot)
    /\ Called =>
        /\ last.op = "get_semester" =>
                LET A(slot) == TableA(last.args.campus_code, slot) IN SignedAs(A)
        /\ last.op = "get_subject_by_semester" =>
                LET K(slot) == TableK(<<>>, last.args.campus_code, slot) IN SignedAs(K)
        /\ last.op = "get_top10_news" =>
                LET K(slot) == TableK(last.args.news_type, last.args.campus_code, slot)
                IN  SignedAs(K)
        /\ last.op \in RollNumberOps =>
                LET K(slot) == TableK(last.args.roll_number, last.args.campus_code, slot)
                IN  SignedAs(K)

\* C11 witness: the signer has signed with Y for the user "a@b" of campus HN
\* and then with K for the roll number S1 of the same campus in the same hour:
\* the two messages differ in the identifier alone, and the keys are the alt
\* and the main key
C11_Witness ==
    /\ Len(sigLog) = 2
    /\ sigLog[1].variant = "y" /\ sigLog[1].args = <<<<"a", "@", "b">>, <<"H", "N">>>>
    /\ sigLog[2].variant = "k" /\ sigLog[2].args = <<<<"S", "1">>, <<"H", "N">>>>
    /\ SameHour(sigLog[1].now, sigLog[2].now)
    /\ sigLog[1].checksum.b64.key = EnvValue("SECRET_KEY_ALT")
    /\ sigLog[2].checksum.b64.key = EnvValue("SECRET_KEY_MAIN")
    /\ IsPrefix(<<"a", "@", "b">> \o EnvValue("SUPER_SECRET_CODE") \o <<"H", "N">>,
                sigLog[1].checksum.b64.msg)
    /\ IsPrefix(<<"S", "1">> \o EnvValue("SUPER_SECRET_CODE") \o <<"H", "N">>,
                sigLog[2].checksum.b64.msg)
    /\ SubSeq(sigLog[1].checksum.b64.msg, 4, Len(sigLog[1].checksum.b64.msg))
        = SubSeq(sigLog[2].checksum.b64.msg, 3, Len(sigLog[2].checksum.b64.msg))

=============================================================================
